---- MODULE Spec2Model ----
(***************************************************************************)
(* Deployment orchestration and live log broadcasting of Django_VPC.       *)
(*                                                                         *)
(*   src/api/main.go        DeploymentManager (registry of subscriber      *)
(*                          channels, status store), handleDeployment      *)
(*                          (the runner goroutine), handleLogStream (one   *)
(*                          stream session per SSE connection),            *)
(*                          handleDeploymentStatus (one status query)      *)
(*   src/unnamed/part_005   DeploymentService.Deploy (the stage pipeline)  *)
(*   src/Services/githubactions.go   extractRepoName,                       *)
(*                          setupGitHubActionsOnServer,                    *)
(*                          runAdditionalAnsibleTasks (its two reader      *)
(*                          goroutines)                                    *)
(*                                                                         *)
(* Go objects that are shared by reference keep their identity: a          *)
(* *DeploymentStatus is named by the request that created it, an inner     *)
(* map[chan]bool by the session whose AddClient created it, a channel by   *)
(* the session that made it.                                               *)
(***************************************************************************)
EXTENDS Integers, Sequences, FiniteSets, TLC

(* ---------------------------------------------------------------- bounds *)
\* number of POST /deploy requests
MaxRuns == 2
\* number of GET /deploy/:id/logs connections
MaxSess == 2
\* capacity of a client channel: make(chan LogMessage, 100) at main.go:256, scaled
QueueCap == 2
\* last second of the wall clock
MaxClock == 1
\* the counts of events written to a client are followed up to this number
MaxCount == 2
\* the heartbeat periods that make one period of the connection timer (20 in
\* main.go:287-291: 10 minutes of 30 seconds)
IdleTicks == 2

Runs == 1..MaxRuns
Sess == 1..MaxSess
Seconds == 0..MaxClock

(* ------------------------------------------------------------ data model *)
\* services.LogMessage without its Timestamp
Ev(level, message, step) == [Level |-> level, Message |-> message, Step |-> step]

\* a message text is the tuple of its format string and the values formatted into it
Sentinel == Ev("system", <<"DEPLOYMENT_COMPLETE">>, "system")
Heartbeat == Ev("system", <<"heartbeat">>, "heartbeat")
\* the initial message of a session (main.go:261-266)
Connected == Ev("system", <<"Connected to log stream">>, "connection")

\* a handler that does not recognise the sentinel
NeverSentinel(e) == FALSE

\* main.go:314
IsSentinel(e) == e.Level = "system" /\ e.Message = <<"DEPLOYMENT_COMPLETE">>

\* Go's nil error
NilErr == <<>>
\* An absent time. An EndTime that is set is the number of times it has been set:
\* every time.Now() is a new value.
NoTime == 0

Usernames == {"", "alice"}
RepoURLs == {"", "not-a-repo", "https://github.com/alice/app.git"}
Tokens == {"", "ghp"}
\* the cause an external tool reports when a stage fails
Causes == {"exit status 1"}

\* fmt.Sprintf("%s-%s-%d", req.Username, time.Now().Format(...), time.Now().Unix())
DeploymentID(username, now) == <<username, now>>

Ids == {DeploymentID(u, t) : u \in Usernames \ {""}, t \in Seconds}

\* extractRepoName: fewer than two path segments is an error
extractRepoNameOk(url) == url = "https://github.com/alice/app.git"

\* a validation that accepts every request
validateNothing(req) == ""

\* validateRequest: "" when the request is valid, else the error text
validateRequest(req) ==
  IF req.Username = "" THEN "username is required"
  ELSE IF req.RepoURL = "" THEN "repo_url is required"
  ELSE IF req.GithubToken = "" THEN "github_token is required"
  ELSE ""

Requests ==
  [Username : Usernames, RepoURL : RepoURLs, GithubToken : Tokens, AutoDeploy : BOOLEAN]


(* ------------------------------------------------------------- pipeline *)
\* Five of the calls of Deploy that can fail, in program order: the two before the
\* deferred cleanup is registered, one of those after it, and the two inside
\* `if req.AutoDeploy`. The other calls, and their events, are left out.
\*   pre    events published before the call
\*   kind   "hard": an error aborts Deploy; "soft": an error is logged at
\*          warn level and Deploy goes on
\*   auto   the call sits inside `if req.AutoDeploy`
\*   ok     events published when the call succeeds
\*   fail   text of the event published when the call fails
\*   err    text of the error Deploy returns when the call fails ("" for a soft call)
St(call, step, pre, kind, auto, ok, fail, err) ==
  [call |-> call, step |-> step, pre |-> pre, kind |-> kind, auto |-> auto,
   ok |-> ok, fail |-> fail, err |-> err]

Stages == <<
  St("extractRepoName", "setup",
     <<Ev("info", <<"Extracting repository name...">>, "setup")>>, "hard", FALSE,
     <<Ev("info", <<"Repository name">>, "setup")>>,
     "Failed to extract repo name", "failed to extract repo name"),
  St("MkdirAll(workDir)", "setup",
     <<Ev("info", <<"Creating deployment directory">>, "setup")>>, "hard", FALSE,
     <<>>,
     "Failed to create work directory", "failed to create work directory"),
  St("ApplyTerraform", "terraform",
     <<Ev("info", <<"Applying Terraform (this may take a few minutes)...">>, "terraform")>>,
     "hard", FALSE,
     <<Ev("success", <<"Terraform applied successfully">>, "terraform")>>,
     "Failed to apply terraform", "failed to apply terraform"),
  St("testSSHConnectivity", "ssh",
     <<Ev("info", <<"Testing SSH connectivity...">>, "ssh")>>, "soft", FALSE,
     <<Ev("success", <<"SSH connectivity test passed">>, "ssh")>>,
     "SSH connectivity test failed, but continuing", ""),
  St("runAnsiblePlaybook", "ansible",
     <<Ev("info", <<"Running Ansible playbook (this may take several minutes)...">>, "ansible")>>,
     "hard", FALSE,
     <<Ev("success", <<"Ansible playbook execution completed successfully">>, "ansible")>>,
     "Failed to run ansible playbook", "failed to run ansible playbook"),
  St("setupGitHubActionsOnServer", "github",
     <<Ev("info", <<"Setting up GitHub Actions auto-deployment...">>, "github")>>, "soft", TRUE,
     <<Ev("success", <<"GitHub Actions setup completed">>, "github")>>,
     "Failed to setup GitHub Actions", ""),
  St("runAdditionalAnsibleTasks", "github",
     <<Ev("info", <<"Running additional GitHub Actions setup tasks...">>, "github")>>, "soft", TRUE,
     <<Ev("success", <<"Additional GitHub Actions tasks completed">>, "github")>>,
     "Failed to run GitHub Actions setup tasks", "")
>>

NumStages == Len(Stages)
\* The readiness stage of Deploy and the playbook run that follows it (part_005:169-185).
\* They are followed only in behaviours that start with readiness switched on; in the
\* others Deploy goes from ApplyTerraform to what comes after the playbook.
ReadinessCalls == {"testSSHConnectivity", "runAnsiblePlaybook"}
\* the deferred cleanup is registered after this many calls have succeeded
DeferAfter == 2

\* a Deploy that returns on every failing call
AlwaysHard(k) == TRUE

\* whether Deploy returns when call k fails
IsHard(k) == Stages[k].kind = "hard"

\* the error a failing call makes Deploy return: fmt.Errorf("<err>: %v", cause)
StageErr(k, cause) == <<Stages[k].err, cause>>
\* the event Deploy publishes for a failing call
StageFailEvent(k, cause) ==
  Ev(IF IsHard(k) THEN "error" ELSE "warn", <<Stages[k].fail, cause>>,
     Stages[k].step)

FinalEvent == Ev("success", <<"Deployment completed successfully!">>, "completed")
CleanupStart == Ev("info", <<"Cleaning up deployment directory...">>, "cleanup")
CleanupOk == Ev("info", <<"Cleanup completed successfully">>, "cleanup")
CleanupFailed(cause) == Ev("warn", <<"Failed to cleanup directory", cause>>, "cleanup")

\* What a failing call publishes itself before it returns its error:
\* setupGitHubActionsOnServer publishes an error-level event on some of its error
\* paths (githubactions.go:1020) and nothing on others (githubactions.go:913)
Inner(k, cause) ==
  IF Stages[k].call = "setupGitHubActionsOnServer"
  THEN {<<>>, <<Ev("error", <<"Failed to write GitHub Actions setup tasks", cause>>, "github")>>}
  ELSE {<<>>}

\* the events of logFunc in handleDeployment
StartingEvent == Ev("info", <<"Starting deployment...">>, "initialization")
FailedEvent(err) == Ev("error", <<"Deployment failed", err>>, "error")
CompletedEvent == Ev("success", <<"Deployment completed successfully! Public IP">>, "completed")


(* ----------------------------------------------------------------- state *)
VARIABLES
  clock,        \* time.Now() of the latest request, in seconds
  deployments,  \* dm.deployments: id -> the request whose record it holds, 0 = no entry
  rec,          \* the *DeploymentStatus each accepted request created
  clients,      \* dm.clients: id -> the inner map registered for it, 0 = nil
  mapObj,       \* the inner maps: the channels each holds
  chanBuf,      \* the buffered events of each session's channel
  chanClosed,   \* whether close() was called on it
  run,          \* one POST /deploy request and its goroutine
  sess,         \* one GET /deploy/:id/logs or GET /deploy/:id/status connection
  hist,         \* per request: BroadcastLog calls completed, stages called, cleanups run
  panicked      \* a goroutine panicked: the process is gone

vars ==
  <<clock, deployments, rec, clients, mapObj, chanBuf, chanClosed, run, sess, hist, panicked>>

NoRec == [Status |-> "", Error |-> NilErr, StartTime |-> 0, EndTime |-> NoTime]
NoReq == [Username |-> "", RepoURL |-> "", GithubToken |-> "", AutoDeploy |-> FALSE]
NoId == <<"", 0>>

\* The two goroutines runAdditionalAnsibleTasks starts, one scanning the stdout and
\* one the stderr of ansible-playbook, each calling BroadcastLog for every line
Readers == {"stdout", "stderr"}

\* a reader goroutine: the events it has still to broadcast and where its current
\* BroadcastLog call stands
IdleReader == [pub |-> <<>>, phase |-> "idle", grabbed |-> 0, todo |-> {}]

\* the event a reader makes of a line: "ok: [...]" on stdout is a success-level event
\* (githubactions.go:1083-1085), a line on stderr without "ERROR!" or "failed:" a
\* warn-level one (githubactions.go:1110)
LineEvent(w) ==
  IF w = "stdout" THEN Ev("success", <<"ok: [server]">>, "github")
  ELSE Ev("warn", <<"[WARNING]: provided hosts list is empty">>, "github")

IdleRun ==
  [pc |-> "idle", id |-> NoId, req |-> NoReq, k |-> 0, pub |-> <<>>,
   phase |-> "idle", grabbed |-> 0, todo |-> {}, err |-> NilErr,
   readers |-> [w \in Readers |-> IdleReader], readiness |-> FALSE]

\* What has been written to a client so far: how many sentinels and how many other
\* events (each up to MaxCount), and whether any event followed a sentinel
NoOutput == [others |-> 0, sentinels |-> 0, after |-> FALSE]

UpTo(n) == IF n < MaxCount THEN n + 1 ELSE n

Written(o, e) ==
  [others |-> IF e = Sentinel THEN o.others ELSE UpTo(o.others),
   sentinels |-> IF e = Sentinel THEN UpTo(o.sentinels) ELSE o.sentinels,
   after |-> o.after \/ o.sentinels > 0]

\* connectionTimeout (main.go:290): the heartbeat ticks since it was started or reset,
\* and whether its channel holds the time of an expiry from before its last Reset.
\* The ticks are counted only in behaviours that start with on; in the others the
\* periods have any length.
NoTimer == [on |-> FALSE, ticks |-> 0, stale |-> FALSE]

\* a connection timer that never expires
ExpiredNever(ss) == ~ss.timer.on

\* a value can be received from connectionTimeout.C
Expired(ss) == ss.timer.on => ss.timer.ticks = IdleTicks \/ ss.timer.stale

\* heartbeatTicker.C delivers its next tick before connectionTimeout.C has a value
CanTick(ss) == ss.timer.on => ss.timer.ticks < IdleTicks /\ ~ss.timer.stale

Ticked(ss) == IF ss.timer.on THEN [ss EXCEPT !.timer.ticks = @ + 1] ELSE ss

\* connectionTimeout.Reset(10 * time.Minute) (main.go:301). Reset does not drain the
\* channel: whether the time of an expiry that was not received stays in it depends
\* on the Go release the server is built with.
ResetOutcomes(ss) == IF ss.timer.on /\ Expired(ss) THEN BOOLEAN ELSE {FALSE}

Reset(ss, stale) ==
  IF ss.timer.on THEN [ss EXCEPT !.timer.ticks = 0, !.timer.stale = stale] ELSE ss

\* The timer of the handler of session ss, which has returned; and, as history where
\* timers are counted, what its channel buffered then (unread) and how many
\* sentinels had been broadcast for its deployment (ended)
Stopped(closed, ss, buf) ==
  IF ss.timer.on
  THEN [closed EXCEPT !.timer = ss.timer, !.unread = buf,
                      !.ended = hist[ss.status].sentinels]
  ELSE closed

(* the dashboard (App.js) *)
\* The state of the dashboard behind a connection: on is whether the client of the
\* connection is a dashboard at all; closed is whether its EventSource is closed
NoDashboard ==
  [on |-> FALSE, deploymentStatus |-> "idle", logs |-> <<>>, isConnected |-> FALSE,
   error |-> FALSE, publicIP |-> FALSE, closed |-> FALSE]

\* json.Marshal of a LogMessage (part_003:4-9) and JSON.parse of it (App.js:146)
Parsed(e) == [level |-> e.Level, message |-> e.Message, step |-> e.Step]

\* startDeployment and connectToLogStream up to onopen (App.js:98-141)
connectToLogStream(d) ==
  [d EXCEPT !.deploymentStatus = "running", !.logs = <<>>, !.isConnected = TRUE,
            !.error = FALSE, !.publicIP = FALSE, !.closed = FALSE]

\* an onmessage that treats a heartbeat like any other message
onmessageShowsHeartbeat(d, m) ==
  IF d.closed THEN d
  ELSE IF m.level = "system" /\ m.message = <<"DEPLOYMENT_COMPLETE">>
  THEN [d EXCEPT !.deploymentStatus = "completed", !.isConnected = FALSE, !.closed = TRUE]
  ELSE [d EXCEPT !.logs = Append(@, m),
                 !.deploymentStatus = IF m.level = "error" THEN "failed" ELSE @]

\* eventSource.onmessage (App.js:143-182)
onmessage(d, m) ==
  IF d.closed THEN d
  ELSE IF m.level = "system" /\ m.message = <<"DEPLOYMENT_COMPLETE">>
  THEN [d EXCEPT !.deploymentStatus = "completed", !.isConnected = FALSE, !.closed = TRUE]
  ELSE IF m.level = "system" /\ m.message = <<"heartbeat">>
  THEN d
  ELSE [d EXCEPT !.publicIP = @ \/ (m.level = "success" /\ m.message = CompletedEvent.Message),
                 !.logs = Append(@, m),
                 !.deploymentStatus = IF m.level = "error" THEN "failed" ELSE @]

\* eventSource.onerror (App.js:184-189): the server has ended the response
onerror(d) ==
  IF d.closed THEN d
  ELSE [d EXCEPT !.isConnected = FALSE, !.error = TRUE, !.closed = TRUE]

\* observed, got: history, kept only in behaviours that start with it switched on:
\* the events the session has forwarded from its channel, in order
\* resp: what handleDeploymentStatus has read through its pointer for its response;
\* snap: history, the fields the record had when GetDeploymentStatus returned;
\* since: history, kept like got: the length the log of BroadcastLog calls had when
\* AddClient registered the session's channel, and left: the length it had when
\* RemoveClient took the channel out
IdleSess ==
  [pc |-> "idle", id |-> NoId, status |-> 0, out |-> NoOutput,
   observed |-> FALSE, got |-> <<>>, resp |-> NoRec, snap |-> NoRec, since |-> 0,
   left |-> 0, dash |-> NoDashboard, timer |-> NoTimer, unread |-> <<>>, ended |-> 0]

\* the handler of session ss has written e to its client
Show(ss, e) == IF ss.dash.on THEN [ss EXCEPT !.dash = onmessage(@, Parsed(e))] ELSE ss

\* the client of session ss has opened its connection
Opened(ss) ==
  IF ss.dash.on
  THEN [ss EXCEPT !.dash = IF ss.pc = "notfound" THEN onerror(connectToLogStream(@))
                           ELSE connectToLogStream(@)]
  ELSE ss

\* the handler of session ss has returned, closed is what is left of it
Disconnected(closed, ss) ==
  IF ss.dash.on THEN [closed EXCEPT !.dash = onerror(ss.dash)] ELSE closed

\* the history of a session that has forwarded e from its channel
Got(ss, e) == IF ss.observed THEN [ss EXCEPT !.got = Append(@, e)] ELSE ss

\* What a request has had BroadcastLog do so far: the error- and warn-level events
\* outside the cleanup, the number of events of the cleanup and of sentinels; and the
\* calls Deploy made, each with its outcome, and the number of times its deferred
\* cleanup ran; and, only in behaviours that start with it switched on, the log of
\* the BroadcastLog calls entered (<<"start", e>>) and returned (<<"end", e>>)
NoHistory ==
  [alerts |-> {}, cleanupEvents |-> 0, sentinels |-> 0, invoked |-> <<>>, cleanups |-> 0,
   observed |-> FALSE, log |-> <<>>]

Logged(h, tag, e) == IF h.observed THEN [h EXCEPT !.log = Append(@, <<tag, e>>)] ELSE h

\* a BroadcastLog call for event e is entered
Publishing(h, e) == Logged(h, "start", e)

Published(h, e) ==
  [Logged(h, "end", e) EXCEPT
            !.alerts = IF e.Level \in {"error", "warn"} /\ e.Step # "cleanup"
                       THEN @ \cup {e} ELSE @,
            !.cleanupEvents = IF e.Step = "cleanup" THEN @ + 1 ELSE @,
            !.sentinels = IF e = Sentinel THEN @ + 1 ELSE @]

Init ==
  /\ clock = 0
  /\ deployments = [i \in Ids |-> 0]
  /\ rec = [r \in Runs |-> NoRec]
  /\ clients = [i \in Ids |-> 0]
  /\ mapObj = [m \in Sess |-> {}]
  /\ chanBuf = [c \in Sess |-> <<>>]
  /\ chanClosed = [c \in Sess |-> FALSE]
  /\ run = [r \in Runs |-> IdleRun]
  /\ sess = [s \in Sess |-> IdleSess]
  /\ hist = [r \in Runs |-> NoHistory]
  /\ panicked = FALSE

\* the state after construction in the behaviours that follow the readiness stage
InitReadiness ==
  /\ clock = 0
  /\ deployments = [i \in Ids |-> 0]
  /\ rec = [r \in Runs |-> NoRec]
  /\ clients = [i \in Ids |-> 0]
  /\ mapObj = [m \in Sess |-> {}]
  /\ chanBuf = [c \in Sess |-> <<>>]
  /\ chanClosed = [c \in Sess |-> FALSE]
  /\ run = [r \in Runs |-> [IdleRun EXCEPT !.readiness = TRUE]]
  /\ sess = [s \in Sess |-> IdleSess]
  /\ hist = [r \in Runs |-> NoHistory]
  /\ panicked = FALSE

\* the state after construction with the histories switched on
InitObserved ==
  /\ clock = 0
  /\ deployments = [i \in Ids |-> 0]
  /\ rec = [r \in Runs |-> NoRec]
  /\ clients = [i \in Ids |-> 0]
  /\ mapObj = [m \in Sess |-> {}]
  /\ chanBuf = [c \in Sess |-> <<>>]
  /\ chanClosed = [c \in Sess |-> FALSE]
  /\ run = [r \in Runs |-> IdleRun]
  /\ sess = [s \in Sess |-> [IdleSess EXCEPT !.observed = TRUE]]
  /\ hist = [r \in Runs |-> [NoHistory EXCEPT !.observed = TRUE]]
  /\ panicked = FALSE

\* ... with a dashboard as the client of every connection
InitDashboard ==
  /\ clock = 0
  /\ deployments = [i \in Ids |-> 0]
  /\ rec = [r \in Runs |-> NoRec]
  /\ clients = [i \in Ids |-> 0]
  /\ mapObj = [m \in Sess |-> {}]
  /\ chanBuf = [c \in Sess |-> <<>>]
  /\ chanClosed = [c \in Sess |-> FALSE]
  /\ run = [r \in Runs |-> IdleRun]
  /\ sess = [s \in Sess |-> [IdleSess EXCEPT !.dash.on = TRUE]]
  /\ hist = [r \in Runs |-> NoHistory]
  /\ panicked = FALSE

\* ... with the periods of the timers of every connection counted
InitTimed ==
  /\ clock = 0
  /\ deployments = [i \in Ids |-> 0]
  /\ rec = [r \in Runs |-> NoRec]
  /\ clients = [i \in Ids |-> 0]
  /\ mapObj = [m \in Sess |-> {}]
  /\ chanBuf = [c \in Sess |-> <<>>]
  /\ chanClosed = [c \in Sess |-> FALSE]
  /\ run = [r \in Runs |-> IdleRun]
  /\ sess = [s \in Sess |-> [IdleSess EXCEPT !.timer.on = TRUE]]
  /\ hist = [r \in Runs |-> NoHistory]
  /\ panicked = FALSE

(* ----------------------------------------------------------------- locks *)
\* clientsMux is read-locked by a BroadcastLog that is inside its loop (main.go:82-90),
\* whichever goroutine called it; a read lock is shared
ClientsReadLocked ==
  \E r \in Runs : run[r].phase = "loop" \/ \E w \in Readers : run[r].readers[w].phase = "loop"
\* deployMux is write-locked by a SetDeploymentStatus between its field writes
DeployLocked ==
  \E r \in Runs : run[r].pc \in {"setRunningError", "setStatusError", "setStatusEndTime"}

(* ------------------------------------------------------ DeploymentManager *)
\* a send that makes room in a full buffer by discarding its oldest event
TrySendEvict(buf, c, e) ==
  IF Len(buf[c]) < QueueCap THEN [buf EXCEPT ![c] = Append(@, e)]
  ELSE [buf EXCEPT ![c] = Append(Tail(@), e)]

\* a send into a buffer without capacity limit
TrySendUnbounded(buf, c, e) == [buf EXCEPT ![c] = Append(@, e)]

\* a send into a buffer that hands out its newest event first
TrySendFront(buf, c, e) ==
  IF Len(buf[c]) < QueueCap THEN [buf EXCEPT ![c] = <<e>> \o @] ELSE buf

\* a non-blocking send on channel c: e is buffered, or dropped when the buffer is full
TrySend(buf, c, e) ==
  IF Len(buf[c]) < QueueCap THEN [buf EXCEPT ![c] = Append(@, e)] ELSE buf

\* a plain `client <- logMsg`: the sender waits while the buffer is full
SelectBlocking(c, e) ==
  /\ Len(chanBuf[c]) < QueueCap
  /\ chanBuf' = [chanBuf EXCEPT ![c] = Append(@, e)]

\* the select of main.go:84-88 on an open channel c: `case client <- logMsg`, or
\* `default` when that would block
Select(c, e) == chanBuf' = TrySend(chanBuf, c, e)

\* a BroadcastLog that keeps the event of a call without subscribers in a new
\* channel of the registry, for a later subscriber
BroadcastGrabStores(r) ==
  /\ ~panicked
  /\ run[r].pub # <<>>
  /\ run[r].phase = "idle"
  /\ LET m == clients[run[r].id] IN
       IF m = 0
       THEN /\ run' = [run EXCEPT ![r].pub = Tail(@)]
            /\ hist' = [hist EXCEPT ![r] =
                          Published(Publishing(@, Head(run[r].pub)), Head(run[r].pub))]
            /\ chanBuf' = TrySend(chanBuf, 1, Head(run[r].pub))
       ELSE /\ run' = [run EXCEPT ![r].phase = "grabbed", ![r].grabbed = m]
            /\ hist' = [hist EXCEPT ![r] = Publishing(@, Head(run[r].pub))]
            /\ UNCHANGED chanBuf
  /\ UNCHANGED <<clock, deployments, rec, clients, mapObj, chanClosed, sess, panicked>>

\* BroadcastLog, first critical section (main.go:71-77): r reads dm.clients[id].
\* A nil map ends the call (main.go:92-95).
BroadcastGrab(r) ==
  /\ ~panicked
  /\ run[r].pub # <<>>
  /\ run[r].phase = "idle"
  /\ LET m == clients[run[r].id] IN
       IF m = 0
       THEN /\ run' = [run EXCEPT ![r].pub = Tail(@)]
            /\ hist' = [hist EXCEPT ![r] =
                          Published(Publishing(@, Head(run[r].pub)), Head(run[r].pub))]
       ELSE /\ run' = [run EXCEPT ![r].phase = "grabbed", ![r].grabbed = m]
            /\ hist' = [hist EXCEPT ![r] = Publishing(@, Head(run[r].pub))]
  /\ UNCHANGED <<clock, deployments, rec, clients, mapObj, chanBuf, chanClosed, sess, panicked>>

\* a loop over the channels of every inner map
PendingAll(r) ==
  IF run[r].phase = "grabbed" THEN UNION {mapObj[m] : m \in Sess} ELSE run[r].todo

\* BroadcastLog, the loop (main.go:81-91): one iteration per step, in any order
\* (Go's map iteration order), clientsMux read-locked from the first to the last.
\* An empty map takes the else branch. Pending(r) are the channels still to visit.
Pending(r) == IF run[r].phase = "grabbed" THEN mapObj[run[r].grabbed] ELSE run[r].todo

BroadcastDeliver(r) ==
  /\ ~panicked
  /\ run[r].phase \in {"grabbed", "loop"}
  /\ LET e == Head(run[r].pub)
         targets == Pending(r)
         finish(rn) == [rn EXCEPT ![r].pub = Tail(@), ![r].phase = "idle",
                                  ![r].grabbed = 0, ![r].todo = {}]
     IN IF targets = {}
        THEN /\ run' = finish(run)
             /\ hist' = [hist EXCEPT ![r] = Published(@, e)]
             /\ UNCHANGED <<chanBuf, panicked>>
        ELSE \E c \in targets :
               IF chanClosed[c]
               THEN /\ panicked' = TRUE
                    /\ UNCHANGED <<chanBuf, run, hist>>
               ELSE /\ Select(c, e)
                    /\ IF targets = {c}
                       THEN /\ run' = finish(run)
                            /\ hist' = [hist EXCEPT ![r] = Published(@, e)]
                       ELSE /\ run' = [run EXCEPT ![r].phase = "loop",
                                                  ![r].todo = targets \ {c}]
                            /\ UNCHANGED hist
                    /\ UNCHANGED panicked
  /\ UNCHANGED <<clock, deployments, rec, clients, mapObj, chanClosed, sess>>


\* CreateDeployment (main.go:119-128): the map entry is overwritten with a new record
CreateDeployment(r, id, now) ==
  /\ deployments' = [deployments EXCEPT ![id] = r]
  /\ rec' = [rec EXCEPT ![r] = [Status |-> "running", Error |-> NilErr,
                                StartTime |-> now, EndTime |-> NoTime]]

\* The record SetDeploymentStatus writes to: dm.deployments[id], 0 when there is none
Target(id) == deployments[id]

\* SetDeploymentStatus (main.go:98-110), one field write per step under deployMux
SetStatusField(id, status) ==
  IF Target(id) = 0 THEN rec ELSE [rec EXCEPT ![Target(id)].Status = status]
SetErrorField(id, err) ==
  IF Target(id) = 0 THEN rec ELSE [rec EXCEPT ![Target(id)].Error = err]
SetEndTimeField(id, status) ==
  IF Target(id) # 0 /\ status \in {"completed", "failed"}
  THEN [rec EXCEPT ![Target(id)].EndTime = @ + 1]
  ELSE rec

(* ------------------------------------------------------- handleDeployment *)
Slot(r) == run[r].pc = "idle" /\ \A q \in Runs : q < r => run[q].pc # "idle"

\* main.go:162-178: a body that does not bind, or a request that does not validate,
\* is answered 400 and nothing else happens
RejectDeployment(r) ==
  /\ ~panicked
  /\ Slot(r)
  /\ \E parsed \in BOOLEAN, req \in Requests :
       /\ ~parsed \/ validateRequest(req) # ""
       /\ run' = [run EXCEPT ![r].pc = "rejected"]
  /\ UNCHANGED <<clock, deployments, rec, clients, mapObj, chanBuf, chanClosed, sess, hist,
                 panicked>>

\* What the clients of POST /deploy do: the requests they send, and whether they
\* send one before the terminal status of every earlier one is written
Env(requests, eager) == [requests |-> requests, eager |-> eager]

Alive(r) == run[r].pc \notin {"idle", "rejected", "done"}

\* The goroutine of request q may still be in the clock second of its request: it has
\* slept neither the 60 seconds of Deploy (part_005:170, before the readiness calls
\* and after every other call that can fail hard) nor the 2 seconds before the
\* registry entry is deleted (main.go:225)
Young(q) ==
  \/ run[q].pc \in {"setRunning", "setRunningError"}
  \/ run[q].pc = "invoke" /\ \E k \in run[q].k..NumStages : Stages[k].call = "ApplyTerraform"
  \/ /\ run[q].err # NilErr /\ run[q].pc # "done"
     /\ \A i \in 1..Len(hist[q].invoked) :
          Stages[hist[q].invoked[i][1]].call \notin ReadinessCalls

\* main.go:180-200: the id is made from the username and the clock, the record is
\* created, and the goroutine starts with logFunc("info", "Starting deployment...").
\* The seconds of the clock are told apart, not measured: a request has the second
\* of an earlier one only while that one is Young.
HandleDeployment(r, env) ==
  /\ ~panicked
  /\ Slot(r)
  /\ ~DeployLocked
  /\ env.eager \/ \A q \in Runs : run[q].pc \in {"idle", "rejected", "retire", "done"}
  /\ \E req \in env.requests, now \in Seconds :
       /\ validateRequest(req) = ""
       /\ now >= clock
       /\ (\A q \in Runs : run[q].pc \in {"idle", "rejected"}) => now = 0
       /\ \A q \in Runs : Alive(q) \/ run[q].pc = "done" => rec[q].StartTime # now \/ Young(q)
       /\ clock' = now
       /\ LET id == DeploymentID(req.Username, now) IN
            /\ CreateDeployment(r, id, now)
            /\ run' = [run EXCEPT ![r] = [IdleRun EXCEPT !.pc = "setRunning", !.id = id,
                                            !.req = req, !.pub = <<StartingEvent>>,
                                            !.readiness = run[r].readiness]]
  /\ UNCHANGED <<clients, mapObj, chanBuf, chanClosed, sess, hist, panicked>>

\* r has no BroadcastLog call pending
Ready(r, pc) == ~panicked /\ run[r].pc = pc /\ run[r].pub = <<>>

\* main.go:204: SetDeploymentStatus(id, "running", nil), Status then Error
SetRunningStatus(r) ==
  /\ Ready(r, "setRunning")
  /\ ~DeployLocked
  /\ rec' = SetStatusField(run[r].id, "running")
  /\ run' = [run EXCEPT ![r].pc = "setRunningError"]
  /\ UNCHANGED <<clock, deployments, clients, mapObj, chanBuf, chanClosed, sess, hist, panicked>>

\* ... and Deploy begins with its first broadcast (part_005:52)
SetRunningError(r) ==
  /\ Ready(r, "setRunningError")
  /\ rec' = SetErrorField(run[r].id, NilErr)
  /\ run' = [run EXCEPT ![r].pc = "invoke", ![r].k = 1, ![r].pub = Stages[1].pre]
  /\ UNCHANGED <<clock, deployments, clients, mapObj, chanBuf, chanClosed, sess, hist, panicked>>

(* ----------------------------------------------------------------- Deploy *)
\* the calls after k that this request makes
\* a Deploy that makes the call it has just made once more
LaterRetries(k, rn) ==
  {j \in k..NumStages : /\ ~Stages[j].auto \/ rn.req.AutoDeploy
                        /\ Stages[j].call \in ReadinessCalls => rn.readiness}

Later(k, rn) ==
  {j \in (k + 1)..NumStages : /\ ~Stages[j].auto \/ rn.req.AutoDeploy
                              /\ Stages[j].call \in ReadinessCalls => rn.readiness}
Min(S) == CHOOSE x \in S : \A y \in S : x <= y

\* What Deploy does after call k returned without aborting: the next call's
\* announcements, or the final event and the deferred cleanup's first (part_005:203, 74)
Continue(rn, k, events) ==
  IF Later(k, rn) # {}
  THEN [rn EXCEPT !.k = Min(Later(k, rn)),
                  !.pub = events \o Stages[Min(Later(k, rn))].pre]
  ELSE [rn EXCEPT !.pc = "removeAll", !.pub = events \o <<FinalEvent, CleanupStart>>]

\* a Deploy whose error branch lacks its return: the error is kept and the next call
\* is made
AbortAndGoOn(rn, k, cause) ==
  Continue([rn EXCEPT !.err = StageErr(k, cause)], k, <<StageFailEvent(k, cause)>>)

\* a Deploy that registers no deferred cleanup
AbortNoCleanup(rn, k, cause) ==
  [rn EXCEPT !.pc = "setStatus", !.err = StageErr(k, cause),
             !.pub = <<StageFailEvent(k, cause), FailedEvent(StageErr(k, cause))>>]

\* What Deploy does when call k fails with a hard error: the error event, then the
\* deferred cleanup if it was registered (part_005:73), then the return to the handler
Abort(rn, k, cause) ==
  IF k > DeferAfter
  THEN [rn EXCEPT !.pc = "removeAll", !.err = StageErr(k, cause),
                  !.pub = <<StageFailEvent(k, cause), CleanupStart>>]
  ELSE [rn EXCEPT !.pc = "setStatus", !.err = StageErr(k, cause),
                  !.pub = <<StageFailEvent(k, cause), FailedEvent(StageErr(k, cause))>>]

\* The outcomes call k can have: "" is success, else the cause of the error
Outcomes(k, req) ==
  IF k = 1
  THEN IF extractRepoNameOk(req.RepoURL) THEN {""} ELSE {"invalid repository URL format"}
  ELSE {""} \cup Causes

\* Call k of Deploy and the bookkeeping up to the next BroadcastLog
Invoke(r) ==
  /\ Ready(r, "invoke")
  /\ LET k == run[r].k IN
     \E o \in Outcomes(k, run[r].req) :
       /\ IF o = "" THEN run' = [run EXCEPT ![r] = Continue(run[r], k, Stages[k].ok)]
          ELSE IF IsHard(k) THEN run' = [run EXCEPT ![r] = Abort(run[r], k, o)]
          ELSE \E inner \in Inner(k, o) :
                 run' = [run EXCEPT ![r] = Continue(run[r], k, inner \o <<StageFailEvent(k, o)>>)]
       /\ hist' = [hist EXCEPT ![r].invoked = Append(@, <<k, o>>)]
  /\ UNCHANGED <<clock, deployments, rec, clients, mapObj, chanBuf, chanClosed, sess, panicked>>

\* runAdditionalAnsibleTasks with a playbook that prints (githubactions.go:1051-1114):
\* the command is started and the two reader goroutines each have a line to broadcast
StartReaders(r) ==
  /\ Ready(r, "invoke")
  /\ Stages[run[r].k].call = "runAdditionalAnsibleTasks"
  /\ run' = [run EXCEPT ![r].pc = "readers",
                         ![r].readers = [w \in Readers |-> [IdleReader EXCEPT !.pub = <<LineEvent(w)>>]]]
  /\ UNCHANGED <<clock, deployments, rec, clients, mapObj, chanBuf, chanClosed, sess, hist,
                 panicked>>

\* BroadcastLog called by reader w of request r, first critical section (main.go:71-77)
ReaderGrab(r, w) ==
  /\ ~panicked
  /\ run[r].readers[w].pub # <<>>
  /\ run[r].readers[w].phase = "idle"
  /\ LET m == clients[run[r].id] IN
       IF m = 0
       THEN /\ run' = [run EXCEPT ![r].readers[w].pub = Tail(@)]
            /\ hist' = [hist EXCEPT ![r] =
                          Published(Publishing(@, Head(run[r].readers[w].pub)),
                                    Head(run[r].readers[w].pub))]
       ELSE /\ run' = [run EXCEPT ![r].readers[w].phase = "grabbed",
                                  ![r].readers[w].grabbed = m]
            /\ hist' = [hist EXCEPT ![r] = Publishing(@, Head(run[r].readers[w].pub))]
  /\ UNCHANGED <<clock, deployments, rec, clients, mapObj, chanBuf, chanClosed, sess, panicked>>

\* ... and its loop (main.go:81-91), one iteration per step, under a read lock that
\* the other reader can hold at the same time
ReaderPending(r, w) ==
  IF run[r].readers[w].phase = "grabbed" THEN mapObj[run[r].readers[w].grabbed]
  ELSE run[r].readers[w].todo

ReaderDeliver(r, w) ==
  /\ ~panicked
  /\ run[r].readers[w].phase \in {"grabbed", "loop"}
  /\ LET e == Head(run[r].readers[w].pub)
         targets == ReaderPending(r, w)
         finish(rn) == [rn EXCEPT ![r].readers[w] = IdleReader]
     IN IF targets = {}
        THEN /\ run' = finish(run)
             /\ hist' = [hist EXCEPT ![r] = Published(@, e)]
             /\ UNCHANGED <<chanBuf, panicked>>
        ELSE \E c \in targets :
               IF chanClosed[c]
               THEN /\ panicked' = TRUE
                    /\ UNCHANGED <<chanBuf, run, hist>>
               ELSE /\ Select(c, e)
                    /\ IF targets = {c}
                       THEN /\ run' = finish(run)
                            /\ hist' = [hist EXCEPT ![r] = Published(@, e)]
                       ELSE /\ run' = [run EXCEPT ![r].readers[w].phase = "loop",
                                                  ![r].readers[w].todo = targets \ {c}]
                            /\ UNCHANGED hist
                    /\ UNCHANGED panicked
  /\ UNCHANGED <<clock, deployments, rec, clients, mapObj, chanClosed, sess>>

\* Both readers have sent on `done` (githubactions.go:1116-1118) and cmd.Wait returns:
\* an error is broadcast at error level and returned, which Deploy logs at warn level
\* (githubactions.go:1120-1127, part_005:195-200)
JoinReaders(r) ==
  /\ Ready(r, "readers")
  /\ \A w \in Readers : run[r].readers[w].pub = <<>>
  /\ LET k == run[r].k
         back == [run[r] EXCEPT !.pc = "invoke"]
     IN \E o \in Outcomes(k, run[r].req) :
          /\ run' = [run EXCEPT ![r] =
               IF o = "" THEN Continue(back, k, Stages[k].ok)
               ELSE Continue(back, k,
                      <<Ev("error", <<"GitHub Actions setup tasks failed", o>>, "github"),
                        StageFailEvent(k, o)>>)]
          /\ hist' = [hist EXCEPT ![r].invoked = Append(@, <<k, o>>)]
  /\ UNCHANGED <<clock, deployments, rec, clients, mapObj, chanBuf, chanClosed, sess, panicked>>

\* the event handleDeployment logs when Deploy has returned (main.go:208-213)
ReportEvent(err) == IF err # NilErr THEN FailedEvent(err) ELSE CompletedEvent

\* The deferred cleanup (part_005:73-80): os.RemoveAll and its event, then Deploy
\* returns and the handler logs the result
RemoveAll(r) ==
  /\ Ready(r, "removeAll")
  /\ \E o \in {""} \cup Causes :
       run' = [run EXCEPT ![r].pc = "setStatus",
                          ![r].pub = <<IF o = "" THEN CleanupOk ELSE CleanupFailed(o),
                                       ReportEvent(run[r].err)>>]
  /\ hist' = [hist EXCEPT ![r].cleanups = @ + 1]
  /\ UNCHANGED <<clock, deployments, rec, clients, mapObj, chanBuf, chanClosed, sess, panicked>>

\* a status that is "failed" also when some subscriber's channel is full
FinalStatusHeard(err) ==
  IF err # NilErr \/ \E c \in Sess : Len(chanBuf[c]) = QueueCap THEN "failed"
  ELSE "completed"

\* the status handleDeployment records for Deploy's result (main.go:208-214)
FinalStatus(err) == IF err # NilErr THEN "failed" ELSE "completed"

\* main.go:210/213: SetDeploymentStatus(id, status, err), Status, Error, then EndTime
SetStatus(r) ==
  /\ Ready(r, "setStatus")
  /\ ~DeployLocked
  /\ rec' = SetStatusField(run[r].id, FinalStatus(run[r].err))
  /\ run' = [run EXCEPT ![r].pc = "setStatusError"]
  /\ UNCHANGED <<clock, deployments, clients, mapObj, chanBuf, chanClosed, sess, hist, panicked>>

SetStatusError(r) ==
  /\ Ready(r, "setStatusError")
  /\ rec' = SetErrorField(run[r].id, run[r].err)
  /\ run' = [run EXCEPT ![r].pc = "setStatusEndTime"]
  /\ UNCHANGED <<clock, deployments, clients, mapObj, chanBuf, chanClosed, sess, hist, panicked>>

\* ... and the sentinel is handed to BroadcastLog (main.go:216-221)
SetStatusEndTime(r) ==
  /\ Ready(r, "setStatusEndTime")
  /\ rec' = SetEndTimeField(run[r].id, FinalStatus(run[r].err))
  /\ run' = [run EXCEPT ![r].pc = "retire", ![r].pub = <<Sentinel>>]
  /\ UNCHANGED <<clock, deployments, clients, mapObj, chanBuf, chanClosed, sess, hist, panicked>>

\* main.go:225-228: two seconds later the registry entry is deleted
Retire(r) ==
  /\ Ready(r, "retire")
  /\ ~ClientsReadLocked
  /\ clients' = [clients EXCEPT ![run[r].id] = 0]
  /\ run' = [run EXCEPT ![r].pc = "done"]
  /\ UNCHANGED <<clock, deployments, rec, mapObj, chanBuf, chanClosed, sess, hist, panicked>>


(* -------------------------------------------------------- handleLogStream *)
SessSlot(s) == sess[s].pc = "idle" /\ \A q \in Sess : q < s => sess[q].pc # "idle"

Terminal(status) == status = "completed" \/ status = "failed"

\* a lookup that finds a record for every id
GetAnyRecord(id) == 1

\* GetDeploymentStatus (main.go:112-117): the pointer stored for id, 0 when there is none
GetDeploymentStatus(id) == deployments[id]

\* a handler that subscribes without looking at the result of the lookup
AttachUnknown(s) ==
  /\ ~panicked
  /\ SessSlot(s)
  /\ ~DeployLocked
  /\ \E id \in Ids :
       sess' = [sess EXCEPT ![s] =
                  Opened([@ EXCEPT !.id = id, !.status = GetDeploymentStatus(id),
                            !.pc = "add"])]
  /\ UNCHANGED <<clock, deployments, rec, clients, mapObj, chanBuf, chanClosed, run, hist,
                 panicked>>

\* main.go:244-256: the lookup; 404 without a record, else the channel is made
Attach(s) ==
  /\ ~panicked
  /\ SessSlot(s)
  /\ ~DeployLocked
  /\ \E id \in Ids :
       sess' = [sess EXCEPT ![s] =
                  Opened([@ EXCEPT !.id = id, !.status = GetDeploymentStatus(id),
                            !.pc = IF GetDeploymentStatus(id) = 0 THEN "notfound" ELSE "add"])]
  /\ UNCHANGED <<clock, deployments, rec, clients, mapObj, chanBuf, chanClosed, run, hist,
                 panicked>>

\* the history of a session whose channel is being registered
Joined(ss) ==
  IF ss.observed THEN [ss EXCEPT !.since = Len(hist[ss.status].log)] ELSE ss

\* an AddClient that puts the first event of the deployment into the new channel
AddClientReplay(s) ==
  /\ ~panicked
  /\ sess[s].pc = "add"
  /\ ~ClientsReadLocked
  /\ LET id == sess[s].id IN
       IF clients[id] = 0
       THEN /\ clients' = [clients EXCEPT ![id] = s]
            /\ mapObj' = [mapObj EXCEPT ![s] = {s}]
       ELSE /\ mapObj' = [mapObj EXCEPT ![clients[id]] = @ \cup {s}]
            /\ UNCHANGED clients
  /\ sess' = [sess EXCEPT ![s] = Joined([@ EXCEPT !.pc = "check"])]
  /\ chanBuf' = [chanBuf EXCEPT ![s] = <<StartingEvent>>]
  /\ UNCHANGED <<clock, deployments, rec, chanClosed, run, hist, panicked>>

\* AddClient (main.go:45-55): the inner map is made on first use
AddClient(s) ==
  /\ ~panicked
  /\ sess[s].pc = "add"
  /\ ~ClientsReadLocked
  /\ LET id == sess[s].id IN
       IF clients[id] = 0
       THEN /\ clients' = [clients EXCEPT ![id] = s]
            /\ mapObj' = [mapObj EXCEPT ![s] = {s}]
       ELSE /\ mapObj' = [mapObj EXCEPT ![clients[id]] = @ \cup {s}]
            /\ UNCHANGED clients
  /\ sess' = [sess EXCEPT ![s] = Joined([@ EXCEPT !.pc = "check"])]
  /\ UNCHANGED <<clock, deployments, rec, chanBuf, chanClosed, run, hist, panicked>>

\* a handler without an initial message
NoGreeting(o) == o

\* main.go:261-270: the initial message is written
Greeting(o) == Written(o, Connected)

\* a handler that writes its own sentinel for a terminal status and then enters the
\* select loop
CheckGoesOn(s) ==
  /\ ~panicked
  /\ sess[s].pc = "check"
  /\ sess' = [sess EXCEPT ![s] =
       IF Terminal(rec[sess[s].status].Status)
       THEN Show(Show([@ EXCEPT !.pc = "stream", !.out = Written(Greeting(@), Sentinel)],
                      Connected), Sentinel)
       ELSE Show([@ EXCEPT !.pc = "stream", !.out = Greeting(@)], Connected)]
  /\ UNCHANGED <<clock, deployments, rec, clients, mapObj, chanBuf, chanClosed, run, hist,
                 panicked>>

\* main.go:261-285: the initial message is written, then a terminal status read
\* through the pointer ends the session with a sentinel of its own; otherwise the
\* select loop starts
Check(s) ==
  /\ ~panicked
  /\ sess[s].pc = "check"
  /\ sess' = [sess EXCEPT ![s] =
       IF Terminal(rec[sess[s].status].Status)
       THEN Show(Show([@ EXCEPT !.pc = "late", !.out = Written(Greeting(@), Sentinel)],
                      Connected), Sentinel)
       ELSE Show([@ EXCEPT !.pc = "stream", !.out = Greeting(@)], Connected)]
  /\ UNCHANGED <<clock, deployments, rec, clients, mapObj, chanBuf, chanClosed, run, hist,
                 panicked>>

\* main.go:295-318: a message from the channel is written to the client; the sentinel
\* ends the session one second later. A closed and drained channel ends it too.
Receive(s) ==
  /\ ~panicked
  /\ sess[s].pc = "stream"
  /\ chanBuf[s] # <<>> \/ chanClosed[s]
  /\ IF chanBuf[s] = <<>>
     THEN /\ sess' = [sess EXCEPT ![s].pc = "return"]
          /\ UNCHANGED chanBuf
     ELSE /\ chanBuf' = [chanBuf EXCEPT ![s] = Tail(@)]
          /\ \E stale \in ResetOutcomes(sess[s]) :
               sess' = [sess EXCEPT ![s] =
                 IF IsSentinel(Head(chanBuf[s]))
                 THEN Show([Got(Reset(@, stale), Head(chanBuf[s])) EXCEPT
                              !.pc = "return", !.out = Written(@, Head(chanBuf[s]))],
                           Head(chanBuf[s]))
                 ELSE Show([Got(Reset(@, stale), Head(chanBuf[s])) EXCEPT
                              !.out = Written(@, Head(chanBuf[s]))],
                           Head(chanBuf[s]))]
  /\ UNCHANGED <<clock, deployments, rec, clients, mapObj, chanClosed, run, hist, panicked>>

\* a heartbeat case that also resets the connection timer
HeartbeatTickResets(s) ==
  /\ ~panicked
  /\ sess[s].pc = "stream"
  /\ CanTick(sess[s])
  /\ sess' = [sess EXCEPT ![s] =
                Show([Reset(@, FALSE) EXCEPT !.out = Written(@, Heartbeat)], Heartbeat)]
  /\ UNCHANGED <<clock, deployments, rec, clients, mapObj, chanBuf, chanClosed, run, hist,
                 panicked>>

\* main.go:320-329
HeartbeatTick(s) ==
  /\ ~panicked
  /\ sess[s].pc = "stream"
  /\ CanTick(sess[s])
  /\ sess' = [sess EXCEPT ![s] =
                Show([Ticked(@) EXCEPT !.out = Written(@, Heartbeat)], Heartbeat)]
  /\ UNCHANGED <<clock, deployments, rec, clients, mapObj, chanBuf, chanClosed, run, hist,
                 panicked>>

\* a RemoveClient that closes the channel and leaves it registered
RemoveClientKeeps(id, c) == mapObj

\* RemoveClient (main.go:57-68) on channel c of deployment id: the channel leaves the
\* registered inner map, if there is one, and is closed; closing a closed channel panics
RemoveClientMaps(id, c) ==
  IF clients[id] # 0 THEN [mapObj EXCEPT ![clients[id]] = @ \ {c}] ELSE mapObj

RemoveClient(id, c) ==
  /\ mapObj' = RemoveClientMaps(id, c)
  /\ IF chanClosed[c]
     THEN panicked' = TRUE /\ UNCHANGED chanClosed
     ELSE chanClosed' = [chanClosed EXCEPT ![c] = TRUE] /\ UNCHANGED panicked

\* the history of a session outlives its handler
Departed(closed, ss) ==
  IF ss.observed
  THEN [closed EXCEPT !.observed = TRUE, !.status = ss.status, !.got = ss.got,
                      !.since = ss.since, !.left = Len(hist[ss.status].log)]
  ELSE closed

\* The handler returns and its deferred RemoveClient runs (main.go:259). Nothing can
\* receive what the channel still buffers, and the handler's locals are gone.
Leave(s) ==
  /\ ~ClientsReadLocked
  /\ RemoveClient(sess[s].id, s)
  /\ chanBuf' = [chanBuf EXCEPT ![s] = <<>>]
  /\ sess' = [sess EXCEPT ![s] =
                Stopped(Disconnected(Departed([IdleSess EXCEPT !.pc = "closed",
                                                                !.id = sess[s].id],
                                                      sess[s]), sess[s]),
                        sess[s], chanBuf[s])]
  /\ UNCHANGED <<clock, deployments, rec, clients, run, hist>>

\* main.go:331-333: the connection timer fires and the handler returns
Timeout(s) ==
  /\ ~panicked
  /\ sess[s].pc = "stream"
  /\ Expired(sess[s])
  /\ Leave(s)

\* main.go:335-337: the client has gone and the handler returns
Disconnect(s) ==
  /\ ~panicked
  /\ sess[s].pc = "stream"
  /\ Leave(s)

\* the return after a sentinel was written (main.go:284, 316-317)
Return(s) ==
  /\ ~panicked
  /\ sess[s].pc \in {"late", "return"}
  /\ Leave(s)

\* RemoveClient called once more for a channel it has already been called for: no
\* handler does this, a caller of the DeploymentManager can
RemoveClientAgain(s) ==
  /\ ~panicked
  /\ sess[s].pc = "closed"
  /\ ~ClientsReadLocked
  /\ RemoveClient(sess[s].id, s)
  /\ sess' = [sess EXCEPT ![s].pc = "again"]
  /\ UNCHANGED <<clock, deployments, rec, clients, chanBuf, run, hist>>

(* ------------------------------------------------- handleDeploymentStatus *)
\* main.go:343-349: the lookup under deployMux; 404 without a record
StatusGet(s) ==
  /\ ~panicked
  /\ SessSlot(s)
  /\ ~DeployLocked
  /\ \E id \in Ids :
       LET p == GetDeploymentStatus(id) IN
       sess' = [sess EXCEPT ![s].id = id, ![s].status = p,
                            ![s].snap = IF p = 0 THEN NoRec ELSE rec[p],
                            ![s].pc = IF p = 0 THEN "statusNotFound" ELSE "readStatus"]
  /\ UNCHANGED <<clock, deployments, rec, clients, mapObj, chanBuf, chanClosed, run, hist,
                 panicked>>

\* What reading field f through the pointer yields: no lock is held (main.go:351-364)
\* and the goroutine may be writing the record, so the value is the one in memory at
\* this step
ReadField(s, f, next) ==
  /\ ~panicked
  /\ sess' = [sess EXCEPT ![s].resp[f] = rec[sess[s].status][f], ![s].pc = next]
  /\ UNCHANGED <<clock, deployments, rec, clients, mapObj, chanBuf, chanClosed, run, hist,
                 panicked>>

\* main.go:353: status.Status
StatusReadStatus(s) == sess[s].pc = "readStatus" /\ ReadField(s, "Status", "readEndTime")

\* main.go:357-360: status.EndTime
StatusReadEndTime(s) == sess[s].pc = "readEndTime" /\ ReadField(s, "EndTime", "readError")

\* main.go:362-366: status.Error, and the response is sent
StatusReadError(s) == sess[s].pc = "readError" /\ ReadField(s, "Error", "answered")

\* the steps of the status queries SS
StatusNext(SS) ==
  \E s \in SS :
    \/ StatusGet(s)
    \/ StatusReadStatus(s)
    \/ StatusReadEndTime(s)
    \/ StatusReadError(s)

\* the steps of the requests RS and of the connections SS, with the clients env
NextOver(RS, SS, env) ==
  \/ \E r \in RS :
       \/ RejectDeployment(r)
       \/ HandleDeployment(r, env)
       \/ BroadcastGrab(r)
       \/ BroadcastDeliver(r)
       \/ SetRunningStatus(r)
       \/ SetRunningError(r)
       \/ Invoke(r)
       \/ RemoveAll(r)
       \/ SetStatus(r)
       \/ SetStatusError(r)
       \/ SetStatusEndTime(r)
       \/ Retire(r)
  \/ \E s \in SS :
       \/ Attach(s)
       \/ AddClient(s)
       \/ Check(s)
       \/ Receive(s)
       \/ HeartbeatTick(s)
       \/ Timeout(s)
       \/ Disconnect(s)
       \/ Return(s)

\* one request, one connection
Spec == Init /\ [][NextOver({1}, {1}, Env(Requests, TRUE))]_vars

\* the requests without the auto-deployment setup
Plain == {q \in Requests : ~q.AutoDeploy}

\* one plain request, every connection
SpecFanout == Init /\ [][NextOver({1}, Sess, Env(Plain, TRUE))]_vars

\* every request, plain, each sent when the terminal status of the one before is
\* written, one connection
SpecRestart == Init /\ [][NextOver(Runs, {1}, Env(Plain, FALSE))]_vars

\* the steps of runAdditionalAnsibleTasks when its playbook prints
ReadersNext(RS) ==
  \E r \in RS :
    \/ StartReaders(r)
    \/ \E w \in Readers : ReaderGrab(r, w)
    \/ \E w \in Readers : ReaderDeliver(r, w)
    \/ JoinReaders(r)

\* the valid requests that ask for the auto-deployment setup
Auto == {q \in Requests : q.AutoDeploy /\ extractRepoNameOk(q.RepoURL)}

\* Request r is inside runAdditionalAnsibleTasks: at "invoke" Deploy is announcing or
\* making the call, at "readers" the playbook has printed and the readers run
InTasks(r, pcs) ==
  /\ run[r].pc \in pcs
  /\ Stages[run[r].k].call = "runAdditionalAnsibleTasks"

\* a connection opened while the first request is inside runAdditionalAnsibleTasks
AttachInTasks(s, pcs) == InTasks(1, pcs) /\ Attach(s)

\* One request with the auto-deployment setup, whose playbook prints, and the
\* connections SS, each opened while runAdditionalAnsibleTasks is at one of pcs and
\* open until its sentinel: no heartbeat, timeout or disconnect
NextReaders(SS, pcs) ==
  \/ \E r \in {1} :
       \/ HandleDeployment(r, Env(Auto, TRUE))
       \/ BroadcastGrab(r)
       \/ BroadcastDeliver(r)
       \/ SetRunningStatus(r)
       \/ SetRunningError(r)
       \/ Invoke(r)
       \/ RemoveAll(r)
       \/ SetStatus(r)
       \/ SetStatusError(r)
       \/ SetStatusEndTime(r)
       \/ Retire(r)
  \/ ReadersNext({1})
  \/ \E s \in SS :
       \/ AttachInTasks(s, pcs)
       \/ AddClient(s)
       \/ Check(s)
       \/ Receive(s)
       \/ Return(s)

\* ... with every connection
SpecReaders == Init /\ [][NextReaders(Sess, {"invoke", "readers"})]_vars

\* ... with one connection, opened while the readers run, and the histories switched on
SpecObserved == InitObserved /\ [][NextReaders({1}, {"readers"})]_vars

\* one plain request and one connection, with the histories switched on
SpecDeparted == InitObserved /\ [][NextOver({1}, {1}, Env(Plain, TRUE))]_vars

\* one request and one connection, a log stream or a status query
SpecStatus ==
  Init /\ [][NextOver({1}, {1}, Env(Requests, TRUE)) \/ StatusNext({1})]_vars

\* The steps of the requests RS alone, with the clients env: no connection is opened,
\* so every BroadcastLog call finds no inner map and ends without entering its loop
NextRuns(RS, env) ==
  \E r \in RS :
    \/ RejectDeployment(r)
    \/ HandleDeployment(r, env)
    \/ BroadcastGrab(r)
    \/ SetRunningStatus(r)
    \/ SetRunningError(r)
    \/ Invoke(r)
    \/ RemoveAll(r)
    \/ SetStatus(r)
    \/ SetStatusError(r)
    \/ SetStatusEndTime(r)
    \/ Retire(r)

\* every request, plain, sent at any time, and no connection
SpecOverlap == Init /\ [][NextRuns(Runs, Env(Plain, TRUE))]_vars

\* a step of the goroutine of request r (main.go:186-229)
RunStep(r) ==
  \/ BroadcastGrab(r)
  \/ BroadcastDeliver(r)
  \/ SetRunningStatus(r)
  \/ SetRunningError(r)
  \/ Invoke(r)
  \/ RemoveAll(r)
  \/ SetStatus(r)
  \/ SetStatusError(r)
  \/ SetStatusEndTime(r)
  \/ Retire(r)

\* The scheduler lets every goroutine that can take a step take one, and every call
\* Deploy makes returns
FairRuns(RS) == \A r \in RS : WF_vars(RunStep(r))

\* SpecRestart with goroutines that are scheduled
LiveRestart == SpecRestart /\ FairRuns(Runs)

\* One plain request and the connection of a dashboard that is left open until the
\* server ends it
NextDashboard ==
  \/ \E r \in {1} :
       \/ HandleDeployment(r, Env(Plain, TRUE))
       \/ RunStep(r)
  \/ \E s \in {1} :
       \/ Attach(s)
       \/ AddClient(s)
       \/ Check(s)
       \/ Receive(s)
       \/ HeartbeatTick(s)
       \/ Timeout(s)
       \/ Return(s)

SpecDashboard == InitDashboard /\ [][NextDashboard]_vars

\* one plain request and a connection that the client leaves open, timers counted
SpecIdle == InitTimed /\ [][NextDashboard]_vars

\* a step of the handler of connection s (main.go:256-340), the deferred RemoveClient
\* included; a tick of its ticker and the expiry of its timer are steps of it
SessStep(s) ==
  \/ AddClient(s)
  \/ Check(s)
  \/ Receive(s)
  \/ HeartbeatTick(s)
  \/ Timeout(s)
  \/ Return(s)

\* The scheduler lets every handler that can take a step take one, and time passes
FairSess(SS) == \A s \in SS : WF_vars(SessStep(s))

\* One plain request and one connection, which the client may close at any time, with
\* timers counted, and goroutines and handlers that are scheduled
LiveSessions ==
  /\ InitTimed /\ [][NextOver({1}, {1}, Env(Plain, TRUE))]_vars
  /\ FairRuns({1}) /\ FairSess({1})

\* one request, one connection, and a caller that unsubscribes its channel again
SpecUnsubscribe ==
  Init /\ [][NextOver({1}, {1}, Env(Requests, TRUE)) \/ RemoveClientAgain(1)]_vars

(* ------------------------------------------------------------ properties *)
\* the record the store holds for the id of request r
Record(r) == rec[deployments[run[r].id]]

\* the number of a call of Deploy
StageOf(call) == CHOOSE k \in 1..NumStages : Stages[k].call = call

Range(q) == {q[i] : i \in 1..Len(q)}

\* handleDeployment has written the status of Deploy's result
StatusWritten(r) == run[r].pc \in {"setStatusError", "setStatusEndTime", "retire", "done"}
\* ... and its error and end time
StatusComplete(r) == run[r].pc \in {"retire", "done"}

\* any step of the goroutine of request r
GoroutineStep(r) ==
  \/ BroadcastGrab(r)
  \/ BroadcastDeliver(r)
  \/ SetRunningStatus(r)
  \/ SetRunningError(r)
  \/ Invoke(r)
  \/ RemoveAll(r)
  \/ SetStatus(r)
  \/ SetStatusError(r)
  \/ SetStatusEndTime(r)
  \/ Retire(r)

\* C1: for every deployment id the status held by the store is monotonic: an id that
\* has a record keeps one, a terminal status never changes again, and "running"
\* changes only to "completed" or "failed".
StatusMonotonic ==
  [][\A id \in Ids :
       deployments[id] # 0 =>
         /\ deployments'[id] # 0
         /\ LET old == rec[deployments[id]].Status
                new == rec'[deployments'[id]].Status
            IN /\ Terminal(old) => new = old
               /\ new # old => old = "running" /\ Terminal(new)]_vars

SentinelIsLast ==
  \A s \in Sess :
    /\ ~sess[s].out.after
    /\ sess[s].out.sentinels <= 1
    /\ sess[s].out.sentinels = 1 <=> sess[s].pc \in {"late", "return"}

\* a session that forwarded log events has forwarded the sentinel and is returning
SentinelForwarded ==
  \E s \in Sess : sess[s].pc = "return" /\ sess[s].out.others >= 2 /\ sess[s].out.sentinels = 1

\* C4: BroadcastLog never waits for a consumer: whatever the sessions have or have
\* not taken from their channels, a goroutine that has not finished can take its
\* next step, so it reaches its terminal status without any session moving.
PublishNeverWaits ==
  \A r \in Runs : Alive(r) /\ ~panicked => ENABLED GoroutineStep(r)

\* the goroutine has finished while a streaming session, which has forwarded nothing,
\* still holds a full channel
FinishedOverFullQueue ==
  \E r \in Runs, s \in Sess :
    /\ run[r].pc = "done"
    /\ sess[s].pc = "stream" /\ sess[s].id = run[r].id
    /\ Len(chanBuf[s]) = QueueCap
    /\ sess[s].out.others = 1

\* C5: one iteration of BroadcastLog's loop visits one channel: the event is appended
\* there if the buffer has room and dropped if it is full, every other channel is left
\* as it was, and the caller goes on the same way in both cases: no error, no retry,
\* the call ends when every channel has been visited once.
SlowConsumerIsolation ==
  [][\A r \in Runs :
       run[r].phase \in {"grabbed", "loop"} /\ run'[r] # run[r] =>
         LET e == Head(run[r].pub)
             visited == Pending(r) \ run'[r].todo
         IN /\ Cardinality(visited) <= 1
            /\ \A c \in Sess :
                 chanBuf'[c] = IF c \in visited /\ Len(chanBuf[c]) < QueueCap
                               THEN Append(chanBuf[c], e)
                               ELSE chanBuf[c]
            /\ run'[r].pc = run[r].pc /\ run'[r].err = run[r].err
            /\ IF visited = Pending(r)
               THEN run'[r].phase = "idle" /\ run'[r].pub = Tail(run[r].pub)
               ELSE run'[r].phase = "loop" /\ run'[r].pub = run[r].pub]_vars

\* within one call, the event was dropped for session 1, whose channel is full, and
\* session 2, whose channel has room, is visited next
DroppedForOneOnly ==
  \E r \in Runs :
    /\ run[r].phase = "loop" /\ run[r].todo = {2}
    /\ 1 \in mapObj[run[r].grabbed]
    /\ Len(chanBuf[1]) = QueueCap
    /\ Head(run[r].pub) \notin Range(chanBuf[1])
    /\ Len(chanBuf[2]) < QueueCap

\* C6: no channel ever buffers more events than its capacity.
QueueBounded == \A c \in Sess : Len(chanBuf[c]) <= QueueCap

\* a BroadcastLog call is about to visit a channel that is full
QueueFullUnderPublish ==
  \E r \in Runs, c \in Sess :
    /\ run[r].phase = "grabbed"
    /\ c \in mapObj[run[r].grabbed]
    /\ Len(chanBuf[c]) = QueueCap

\* C7: RemoveClient is idempotent: a second call for the same channel, and a call made
\* after the registry entry of the deployment was deleted, change nothing in the
\* registry and do not panic.
RemoveClientIdempotent ==
  [][\A s \in Sess :
       /\ sess[s].pc = "closed" /\ sess'[s].pc = "again"
            => clients' = clients /\ mapObj' = mapObj /\ ~panicked'
       /\ sess[s].pc # "closed" /\ sess'[s].pc = "closed" /\ clients[sess[s].id] = 0
            => clients' = clients /\ mapObj' = mapObj /\ ~panicked']_vars

\* the text of the cause alone, or the text Deploy makes of it: "<what failed>: <cause>"
ErrorText(k, cause, wrapped) == IF wrapped THEN <<Stages[k].err, cause>> ELSE <<cause>>

\* What C8 says of request r: a call k that failed hard with cause is the last call
\* Deploy made, its error-level event was published before the sentinel, and the
\* status written is "failed" with the error text
HardFailureAborts(r, wrapped) ==
  \A i \in 1..Len(hist[r].invoked) :
    LET k == hist[r].invoked[i][1]
        cause == hist[r].invoked[i][2]
    IN cause # "" /\ Stages[k].kind = "hard" =>
         /\ i = Len(hist[r].invoked)
         /\ hist[r].sentinels > 0 =>
              Ev("error", <<Stages[k].fail, cause>>, Stages[k].step) \in hist[r].alerts
         /\ StatusWritten(r) => Record(r).Status = "failed"
         /\ StatusComplete(r) => Record(r).Error = ErrorText(k, cause, wrapped)

WorkDirMade(r) == <<StageOf("MkdirAll(workDir)"), "">> \in Range(hist[r].invoked)

\* C9, as stated: on every exit path of Deploy, an abort in the first call included,
\* the cleanup has run exactly once and its two events are published when the status
\* is written and when the sentinel is published.
CleanupOnEveryExit ==
  \A r \in Runs :
    StatusWritten(r) \/ hist[r].sentinels > 0 =>
      hist[r].cleanups = 1 /\ hist[r].cleanupEvents = 2

\* C9, amended: the cleanup never runs twice; on every exit path of Deploy after the
\* work directory was created it has run exactly once and its two events are
\* published when the status is written and when the sentinel is published; when
\* extractRepoName or MkdirAll fails there is no cleanup and no cleanup event.
CleanupOnceWorkDirMade ==
  \A r \in Runs :
    /\ hist[r].cleanups <= 1
    /\ StatusWritten(r) \/ hist[r].sentinels > 0 =>
         IF WorkDirMade(r)
         THEN hist[r].cleanups = 1 /\ hist[r].cleanupEvents = 2
         ELSE hist[r].cleanups = 0 /\ hist[r].cleanupEvents = 0

\* a request whose Deploy returned without error has ended, cleanup done
CleanupReached ==
  \E r \in Runs :
    /\ run[r].pc = "done" /\ run[r].err = NilErr
    /\ hist[r].cleanups = 1 /\ hist[r].cleanupEvents = 2

\* C10: a call inside `if req.AutoDeploy` that fails has its failure published as a
\* warn-level event, every later call is still made, and the request, which has had
\* no hard failure then, ends "completed" with no error in its record.
SoftFailureGoesOn ==
  \A r \in Runs :
    \A i \in 1..Len(hist[r].invoked) :
      LET k == hist[r].invoked[i][1]
          cause == hist[r].invoked[i][2]
          warning == Ev("warn", <<Stages[k].fail, cause>>, Stages[k].step)
      IN cause # "" /\ Stages[k].kind = "soft" =>
           /\ warning \in hist[r].alerts \cup Range(run[r].pub)
           /\ StatusWritten(r) =>
                /\ warning \in hist[r].alerts
                /\ \A j \in Later(k, run[r]) : \E o \in {""} \cup Causes :
                     <<j, o>> \in Range(hist[r].invoked)
                /\ Record(r).Status = "completed"
           /\ StatusComplete(r) => Record(r).Error = NilErr

\* a request has ended after setupGitHubActionsOnServer failed and
\* runAdditionalAnsibleTasks succeeded
SoftFailureReached ==
  \E r \in Runs :
    /\ run[r].pc = "done"
    /\ <<StageOf("setupGitHubActionsOnServer"), "exit status 1">> \in Range(hist[r].invoked)
    /\ <<StageOf("runAdditionalAnsibleTasks"), "">> \in Range(hist[r].invoked)

\* event a sits before event b in the queue q
Before(q, a, b) == \E i, j \in 1..Len(q) : i < j /\ q[i] = a /\ q[j] = b

\* session s has forwarded its initial message and an event from its channel
Forwarding(s) == sess[s].pc = "stream" /\ sess[s].out.others >= 2

\* C11: two sessions subscribed to the same deployment before a set of events is
\* published receive those events in the same order, whichever goroutines call
\* BroadcastLog and however they interleave. A channel is received from in the order
\* it was sent to, so the channels of two sessions that were both forwarding before
\* two events were published never buffer those events in opposite orders.
SameOrderForAllSubscribers ==
  \A s, t \in Sess :
    sess[s].id = sess[t].id /\ Forwarding(s) /\ Forwarding(t) =>
      \A a, b \in Range(chanBuf[s]) :
        a # b /\ Before(chanBuf[s], a, b) => ~Before(chanBuf[t], b, a)

\* according to log, the BroadcastLog call for x returned before the one for y was entered
CompletedBeforeStart(log, x, y) ==
  \E i \in 1..Len(log) :
    /\ log[i] = <<"end", x>>
    /\ \E j \in (i + 1)..Len(log) : log[j] = <<"start", y>>

\* C12: the events a session forwards from its channel are events BroadcastLog was
\* called with for its deployment, each forwarded once, in publication order: an event
\* is never forwarded after an event whose BroadcastLog call was entered only when
\* the call for the former had returned.
ReceivedInPublicationOrder ==
  [][\A s \in Sess :
       sess'[s].observed /\ Len(sess'[s].got) > Len(sess[s].got) =>
         LET got == sess'[s].got
             e == got[Len(got)]
             log == hist'[sess'[s].status].log
         IN /\ \E p \in 1..Len(log) : log[p] = <<"start", e>>
            /\ \A i \in 1..(Len(got) - 1) :
                 /\ got[i] # e
                 /\ ~CompletedBeforeStart(log, e, got[i])]_vars

\* a session has forwarded the lines of both reader goroutines and, from the main
\* goroutine, the final event of Deploy and the sentinel
ReceivedFromAllGoroutines ==
  \E s \in Sess :
    /\ {LineEvent(w) : w \in Readers} \subseteq Range(sess[s].got)
    /\ FinalEvent \in Range(sess[s].got)
    /\ Sentinel \in Range(sess[s].got)

\* the number of channels registered for deployment id
ClientCount(id) == IF clients[id] = 0 THEN 0 ELSE Cardinality(mapObj[clients[id]])

\* channel c is registered for deployment id
Registered(id, c) == clients[id] # 0 /\ c \in mapObj[clients[id]]

\* C13: a session that closes, whichever way (disconnect, timeout, sentinel, closed
\* channel), calls RemoveClient exactly once: its channel is closed by that call and
\* nothing panics; if the channel was registered, the count of registered channels of
\* its deployment is one lower after the call; the channel is then registered for no
\* deployment; and once the session is closed no BroadcastLog call sends to its
\* channel (a send to the closed channel would panic).
UnsubscribedOnClose ==
  [][\A s \in Sess :
       /\ sess[s].pc \in {"stream", "late", "return"} /\ sess'[s].pc = "closed" =>
            /\ ~chanClosed[s] /\ chanClosed'[s] /\ ~panicked'
            /\ Registered(sess[s].id, s) =>
                 ClientCount(sess[s].id)' = ClientCount(sess[s].id) - 1
            /\ \A id \in Ids : ~Registered(id, s)'
       /\ sess[s].pc = "closed" => chanBuf'[s] = chanBuf[s] /\ ~panicked']_vars

\* C14: a log-stream attach or a status query for an id ends not-found exactly when
\* the id has no record, and then changes neither the status store nor the registry:
\* no channel is made or registered, no registry entry is created, and the handler
\* does nothing more.
NotFoundChangesNothing ==
  [][\A s \in Sess :
       /\ sess[s].pc = "idle" /\ sess'[s].pc # "idle" =>
            /\ deployments[sess'[s].id] = 0 <=>
                 sess'[s].pc \in {"notfound", "statusNotFound"}
            /\ sess'[s].pc \in {"notfound", "statusNotFound"} =>
                 /\ <<deployments, rec, clients, mapObj, chanBuf, chanClosed>>' =
                      <<deployments, rec, clients, mapObj, chanBuf, chanClosed>>
                 /\ \A id \in Ids : ~Registered(id, s)'
       /\ sess[s].pc \in {"notfound", "statusNotFound"} =>
            /\ sess'[s] = sess[s]
            /\ \A id \in Ids : ~Registered(id, s)'
            /\ chanBuf'[s] = <<>> /\ ~chanClosed'[s]]_vars

\* a status query for an id without record was answered not-found while a deployment
\* with another id is running
StatusQueryNotFound ==
  \E s \in Sess, r \in Runs :
    /\ sess[s].pc = "statusNotFound"
    /\ run[r].pc = "invoke" /\ run[r].id # sess[s].id

\* C15: a deploy request whose body does not parse or that lacks username, repo_url
\* or github_token is rejected before any state changes: the rejecting step changes
\* nothing but the request's own outcome, a rejected request never has a record, a
\* goroutine, an event to publish or a published event, and every request that was
\* accepted has all three fields.
RejectedBeforeAnyChange ==
  [][\A r \in Runs :
       /\ run[r].pc = "idle" /\ run'[r].pc = "rejected" =>
            /\ run' = [run EXCEPT ![r] = [IdleRun EXCEPT !.pc = "rejected",
                                                           !.readiness = run[r].readiness]]
            /\ <<clock, deployments, rec, clients, mapObj, chanBuf, chanClosed, sess, hist,
                 panicked>>' =
               <<clock, deployments, rec, clients, mapObj, chanBuf, chanClosed, sess, hist,
                 panicked>>
       /\ run[r].pc = "rejected" =>
            /\ run'[r] = run[r]
            /\ rec'[r] = NoRec /\ hist'[r] = hist[r]
            /\ \A id \in Ids : deployments'[id] # r
       /\ run'[r].pc \notin {"idle", "rejected"} =>
            /\ run'[r].req.Username # ""
            /\ run'[r].req.RepoURL # ""
            /\ run'[r].req.GithubToken # ""]_vars

\* a request was rejected while the goroutine of an accepted one was at work
RejectedBesideRunning ==
  \E r, q \in Runs :
    /\ run[r].pc = "rejected"
    /\ run[q].pc = "invoke" /\ rec[q].Status = "running"

\* C16: SetDeploymentStatus called for an id whose record is terminal is a no-op:
\* whatever status and error it is called with, the record keeps the status, error
\* and end time it had. The first write of a call decides it: when the record the
\* call finds is terminal, that write leaves the record as it was.
TerminalRecordKept ==
  [][\A r \in Runs :
       LET t == Target(run[r].id) IN
       /\ \/ run[r].pc = "setRunning" /\ run'[r].pc = "setRunningError"
          \/ run[r].pc = "setStatus" /\ run'[r].pc = "setStatusError"
       /\ t # 0 /\ Terminal(rec[t].Status)
       => rec'[t] = rec[t]]_vars

\* C17: what a reader observes of a record is consistent: the response of a status
\* query has an end time exactly when its status is terminal, and an error when its
\* status is "failed".
ReaderSeesConsistentRecord ==
  \A s \in Sess :
    sess[s].pc = "answered" =>
      /\ Terminal(sess[s].resp.Status) <=> sess[s].resp.EndTime # NoTime
      /\ sess[s].resp.Status = "failed" => sess[s].resp.Error # NilErr

\* C18: GetDeploymentStatus returns a snapshot: the status, end time and error its
\* caller reads from the returned value are those the record had when the call
\* returned, whatever SetDeploymentStatus does meanwhile.
GetReturnsSnapshot ==
  \A s \in Sess :
    sess[s].pc = "answered" =>
      /\ sess[s].resp.Status = sess[s].snap.Status
      /\ sess[s].resp.EndTime = sess[s].snap.EndTime
      /\ sess[s].resp.Error = sess[s].snap.Error

\* request r is accepted for deployment id in this step
Accepted(r, id) == run[r].pc = "idle" /\ run'[r].pc = "setRunning" /\ run'[r].id = id

\* C19: CreateDeployment for an id that already has a record leaves that record as it
\* is: the store holds the same record for the id, with the same status, start time,
\* end time and error, after the call.
CreateKeepsExisting ==
  [][\A id \in Ids :
       deployments[id] # 0 /\ (\E r \in Runs : Accepted(r, id)) =>
         /\ deployments'[id] = deployments[id]
         /\ rec'[deployments'[id]] = rec[deployments[id]]]_vars

\* C20: no two accepted requests have the same deployment id.
IdsNeverReused ==
  \A r, q \in Runs :
    r # q /\ run[r].pc \notin {"idle", "rejected"} /\ run[q].pc \notin {"idle", "rejected"} =>
      run[r].id # run[q].id

\* according to the log of its deployment, the BroadcastLog call for e had returned
\* when the channel of session s was registered
PublishedBeforeJoin(s, e) ==
  \E i \in 1..sess[s].since : hist[sess[s].status].log[i] = <<"end", e>>

ReturnsWithoutSubscriber(r) ==
  /\ Len(run'[r].pub) < Len(run[r].pub)
  /\ \/ run[r].phase = "idle" /\ clients[run[r].id] = 0
     \/ run[r].phase = "grabbed" /\ mapObj[run[r].grabbed] = {}

RetireClosesSubscribers ==
  [][\A r \in Runs :
       run[r].pc # "done" /\ run'[r].pc = "done" =>
         /\ run[r].pc = "retire" /\ hist[r].sentinels = 1
         /\ clients'[run[r].id] = 0
         /\ \A c \in Sess : Registered(run[r].id, c) => chanClosed'[c]]_vars

\* the channel of session s buffers a sentinel, or its handler has written one
HoldsSentinel(s) ==
  Sentinel \in Range(chanBuf[s]) \/ sess[s].out.sentinels >= 1

\* C24: the terminal status is written before the sentinel is broadcast: whenever the
\* channel or the client of a session holds the sentinel of a deployment, the record
\* GetDeploymentStatus returns for that deployment has status completed or failed.
TerminalBeforeSentinel ==
  \A s \in Sess :
    HoldsSentinel(s) =>
      /\ GetDeploymentStatus(sess[s].id) # 0
      /\ Terminal(rec[GetDeploymentStatus(sess[s].id)].Status)

\* the calls among the outcomes inv that failed with Deploy returning the error
HardFailures(inv) ==
  {i \in 1..Len(inv) : inv[i][2] # "" /\ Stages[inv[i][1]].kind = "hard"}

\* the status and the error that follow from the outcomes inv of Deploy's calls alone
StatusOf(inv) == IF HardFailures(inv) = {} THEN "completed" ELSE "failed"

ErrorOf(inv) ==
  IF HardFailures(inv) = {} THEN NilErr
  ELSE LET i == CHOOSE j \in HardFailures(inv) : TRUE IN StageErr(inv[i][1], inv[i][2])

\* C25: the terminal status and error recorded for a deployment are a function of the
\* outcomes of the calls Deploy made (completed exactly when none failed hard), the
\* same whatever sessions were attached, when they came and went, and whether their
\* channels were full.
StatusFromOutcomesOnly ==
  \A r \in Runs :
    StatusComplete(r) =>
      /\ Record(r).Status = StatusOf(hist[r].invoked)
      /\ Record(r).Error = ErrorOf(hist[r].invoked)

\* a deployment has ended completed while one session had left and the other kept a
\* full channel, from which the sentinel was dropped
CompletedBesideFullChannel ==
  \E r \in Runs, s, t \in Sess :
    /\ run[r].pc = "done" /\ Record(r).Status = "completed"
    /\ sess[s].pc = "stream" /\ sess[s].id = run[r].id
    /\ Len(chanBuf[s]) = QueueCap /\ Sentinel \notin Range(chanBuf[s])
    /\ sess[t].pc = "closed" /\ sess[t].id = run[r].id

\* C26: every deployment that was started reaches the end of its goroutine, with a
\* terminal status in the record of its id, its sentinel broadcast and its registry
\* entry deleted, whatever the sessions do and whether or not a call failed hard.
DeploymentEnds ==
  \A r \in Runs :
    Alive(r) ~> (run[r].pc = "done" /\ hist[r].sentinels = 1
                   /\ Terminal(Record(r).Status))

\* C28: a heartbeat the dashboard receives is never added to its list of logs and
\* never changes the deployment status it displays, nor anything else it displays.
HeartbeatNotShown ==
  [][\A s \in Sess :
       /\ HeartbeatTick(s) => sess'[s].dash = sess[s].dash
       /\ Parsed(Heartbeat) \notin Range(sess'[s].dash.logs)]_vars

\* a dashboard whose connection is open has received a heartbeat after the initial
\* message: two messages were written to it and its list holds one
HeartbeatReceived ==
  \E s \in Sess :
    /\ sess[s].dash.on /\ sess[s].pc = "stream"
    /\ sess[s].out.others = 2
    /\ sess[s].dash.logs = <<Parsed(Connected)>>
    /\ sess[s].dash.deploymentStatus = "running"

\* the step forwards an event from the channel of session s
Forwards(s) ==
  /\ sess[s].pc = "stream" /\ sess'[s].pc \in {"stream", "return"}
  /\ chanBuf[s] # <<>> /\ chanBuf'[s] = Tail(chanBuf[s])

\* C29: in its select loop, a session that forwards an event from its channel resets
\* its connection timer; a heartbeat tick writes a heartbeat and leaves the timer
\* running, one tick further; once the timer has expired nothing but the forwarding
\* of an event or the return of the handler follows, and the return is possible as
\* soon as RemoveClient can lock: a session that gets no event for the whole period
\* closes though it wrote heartbeats in it.
IdleTimerRules ==
  [][\A s \in Sess :
       sess[s].timer.on /\ sess[s].pc = "stream" =>
         /\ Forwards(s) => sess'[s].timer.ticks = 0
         /\ HeartbeatTick(s) =>
              /\ sess'[s].timer.ticks = sess[s].timer.ticks + 1
              /\ sess'[s].pc = "stream"
              /\ sess'[s].out = Written(sess[s].out, Heartbeat)
         /\ sess[s].timer.ticks <= IdleTicks
         /\ sess[s].timer.ticks = IdleTicks =>
              /\ sess'[s] # sess[s] => Forwards(s) \/ sess'[s].pc = "closed"
              /\ ~ClientsReadLocked /\ ~panicked => ENABLED Timeout(s)]_vars

\* the handler of a session has returned on the expiry of its connection timer, a
\* whole period of heartbeats after its last event
ClosedWhenIdle ==
  \E s \in Sess :
    /\ sess[s].pc = "closed" /\ sess[s].timer.on
    /\ sess[s].timer.ticks = IdleTicks /\ ~sess[s].timer.stale

\* the handler of session s is running
Streaming(s) == sess[s].pc \in {"add", "check", "stream", "late", "return"}

\* C30: every session whose handler is running comes to its end, by the sentinel, the
\* connection timer, the client's disconnect or a closed channel, also when its
\* sentinel was dropped on a full channel; its channel is then closed and registered
\* for no deployment.
SessionEnds ==
  \A s \in Sess :
    Streaming(s) ~>
      (sess[s].pc = "closed" /\ chanClosed[s]
         /\ \A id \in Ids : ~Registered(id, s))

\* The handler of a session that was streaming has returned a whole timer period after
\* its last event: the sentinel of its deployment had been broadcast by then, and it
\* has neither forwarded it (that resets the timer) nor left it in its channel, from
\* which the sentinel was dropped
ClosedAfterDroppedSentinel ==
  \E s \in Sess :
    /\ sess[s].pc = "closed" /\ chanClosed[s]
    /\ sess[s].timer.on /\ sess[s].timer.ticks = IdleTicks /\ ~sess[s].timer.stale
    /\ sess[s].ended = 1
    /\ Len(sess[s].unread) = QueueCap /\ Sentinel \notin Range(sess[s].unread)

\* no goroutine of a request with this id has deleted the registry entry
NotRetired(id) == \A r \in Runs : run[r].id = id => run[r].pc # "done"

\* C31, as stated: before the retire step, an id has a record in dm.deployments
\* exactly when it has an entry in dm.clients.
RecordIffRegistryEntry ==
  \A id \in Ids : NotRetired(id) => (deployments[id] # 0 <=> clients[id] # 0)

\* C31, amended: the record is created at the start of the deployment, the registry
\* entry by the first AddClient for the id; an id that has a registry entry has a
\* record, and a record may have no registry entry.
RegistryEntryHasRecord ==
  \A id \in Ids : clients[id] # 0 => deployments[id] # 0

\* a deployment that has not been retired has its record and, a session having
\* subscribed, its registry entry
RecordAndEntryReached ==
  \E id \in Ids, s \in Sess :
    /\ NotRetired(id) /\ deployments[id] # 0
    /\ Registered(id, s) /\ sess[s].pc = "stream"

\* one request and one connection, with the readiness stage of Deploy followed
SpecReadiness == InitReadiness /\ [][NextOver({1}, {1}, Env(Requests, TRUE))]_vars

\* C32: Deploy probes connectivity once; a failed probe is published as a warn-level
\* event and the next call made is the playbook run, so that a request whose only
\* failure is the probe's ends "completed"; and no call of Deploy is made more than
\* once for a request.
ProbeFailureGoesOn ==
  \A r \in Runs :
    LET inv == hist[r].invoked
        probe == StageOf("testSSHConnectivity")
        playbook == StageOf("runAnsiblePlaybook")
    IN /\ \A i, j \in 1..Len(inv) : inv[i][1] = inv[j][1] => i = j
       /\ \A i \in 1..Len(inv) :
            inv[i][1] = probe /\ inv[i][2] # "" =>
              /\ Ev("warn", <<Stages[probe].fail, inv[i][2]>>, "ssh")
                   \in hist[r].alerts \cup Range(run[r].pub)
              /\ IF i = Len(inv) THEN run[r].pc = "invoke" /\ run[r].k = playbook
                 ELSE inv[i + 1][1] = playbook
              /\ StatusWritten(r) /\ HardFailures(inv) = {} =>
                   Record(r).Status = "completed"

\* a request has ended "completed" after its probe failed and its playbook run
\* succeeded
ProbeFailedAndCompleted ==
  \E r \in Runs :
    /\ run[r].pc = "done" /\ Record(r).Status = "completed"
    /\ <<StageOf("testSSHConnectivity"), "exit status 1">> \in Range(hist[r].invoked)
    /\ <<StageOf("runAnsiblePlaybook"), "">> \in Range(hist[r].invoked)
    /\ Ev("warn", <<"SSH connectivity test failed, but continuing", "exit status 1">>, "ssh")
         \in hist[r].alerts

\* C33: in no interleaving of BroadcastLog, RemoveClient and the goroutine's delete of
\* the registry entry does a BroadcastLog call send on a channel that has been closed
\* (which panics).
NoSendOnClosedChannel == [][~ \E r \in Runs : BroadcastDeliver(r) /\ panicked']_vars

\* C34: once the goroutine of a deployment has deleted the registry entry of its id,
\* the registry holds no entry for that id again: a session that attaches to the
\* ended deployment afterwards leaves the registry as it found it when it closes.
RetiredStaysRemoved == \A r \in Runs : run[r].pc = "done" => clients[run[r].id] = 0

\* C35: a connection is written the sentinel at most once, however the handler's
\* lookup, AddClient and status check interleave with the goroutine's status write and
\* sentinel broadcast: the step that writes a sentinel writes the connection's first
\* and puts the handler on its way out, and a handler that has written one writes
\* nothing more, so the sentinel of the late-attach branch and a broadcast one in the
\* channel are never both written.
SentinelOncePerConnection ==
  [][\A s \in Sess :
       /\ sess'[s].out.sentinels > sess[s].out.sentinels =>
            sess[s].out.sentinels = 0 /\ sess'[s].pc \in {"late", "return"}
       /\ sess[s].out.sentinels > 0 =>
            sess'[s].out = sess[s].out \/ sess'[s].pc = "closed"]_vars

\* a handler has written the sentinel of the late-attach branch while a broadcast
\* sentinel is in its channel
LateSentinelBesideQueued ==
  \E s \in Sess :
    /\ sess[s].pc = "late" /\ sess[s].out.sentinels = 1
    /\ Sentinel \in Range(chanBuf[s])

\* the valid plain requests whose repository URL extractRepoName refuses: Deploy
\* returns at its first call
Refused == {q \in Plain : validateRequest(q) = "" /\ ~extractRepoNameOk(q.RepoURL)}

\* every request, refused by extractRepoName and each sent when the terminal status of
\* the one before is written (its goroutine may still be before its delete of the
\* registry entry), and every connection
NextTwoIds ==
  \/ \E r \in Runs :
       \/ HandleDeployment(r, Env(Refused, FALSE))
       \/ BroadcastGrab(r)
       \/ BroadcastDeliver(r)
       \/ SetRunningStatus(r)
       \/ SetRunningError(r)
       \/ Invoke(r)
       \/ SetStatus(r)
       \/ SetStatusError(r)
       \/ SetStatusEndTime(r)
       \/ Retire(r)
  \/ \E s \in Sess :
       \/ Attach(s)
       \/ AddClient(s)
       \/ Check(s)
       \/ Receive(s)
       \/ Disconnect(s)
       \/ Return(s)

SpecTwoIds == Init /\ [][NextTwoIds]_vars

\* C36: a BroadcastLog call for an id enqueues its event only into channels of the
\* inner map it read under that id, which are channels of sessions of that id: the
\* channels of the sessions of every other id, and the registry with all its inner
\* maps, are unchanged by every step of the call.
PublishTouchesOwnSubscribersOnly ==
  [][\A r \in Runs :
       BroadcastGrab(r) \/ BroadcastDeliver(r) =>
         /\ clients' = clients /\ mapObj' = mapObj /\ chanClosed' = chanClosed
         /\ \A c \in Sess :
              chanBuf'[c] # chanBuf[c] =>
                /\ c \in Pending(r)
                /\ sess[c].id = run[r].id]_vars

\* a BroadcastLog call has enqueued its event into the channel of a session of its id
\* while a session of another id, with a running deployment, is registered
PublishedBesideOtherDeployment ==
  \E r, q \in Runs, c, d \in Sess :
    /\ run[r].id # run[q].id /\ Alive(r) /\ Alive(q)
    /\ Registered(run[r].id, c) /\ Registered(run[q].id, d)
    /\ sess[c].pc = "stream" /\ sess[d].pc = "stream"
    /\ chanBuf[c] # <<>> /\ chanBuf[d] # <<>>

\* the channels registered for deployment id
RegisteredSet(id) == IF clients[id] = 0 THEN {} ELSE mapObj[clients[id]]

\* session s has called AddClient and not yet RemoveClient
Subscribed(s) == sess[s].pc \in {"check", "stream", "late", "return"}

\* C37: in every reachable state, for every deployment whose registry entry has not
\* been deleted by its goroutine, the channels registered for it are exactly the
\* channels of the sessions of it that have called AddClient and not yet RemoveClient,
\* and every registered channel is open.
RegistryMatchesSessions ==
  \A id \in Ids :
    NotRetired(id) =>
      /\ RegisteredSet(id) = {s \in Sess : Subscribed(s) /\ sess[s].id = id}
      /\ \A c \in RegisteredSet(id) : ~chanClosed[c]

\* of two sessions registered for a running deployment one has left, and the other
\* is still registered, with an event in its channel
OneLeftOneRegistered ==
  \E id \in Ids, s, t \in Sess :
    /\ NotRetired(id) /\ deployments[id] # 0
    /\ sess[s].pc = "closed" /\ sess[s].id = id /\ chanClosed[s]
    /\ sess[t].pc = "stream" /\ sess[t].id = id
    /\ RegisteredSet(id) = {t} /\ chanBuf[t] # <<>>

\* C38: once an error-level event has set the status the dashboard displays to
\* "failed", the sentinel of that deployment does not change it to "completed".
FailedStaysFailed ==
  [][\A s \in Sess :
       sess[s].dash.deploymentStatus = "failed" =>
         sess'[s].dash.deploymentStatus # "completed"]_vars

====
